---- MODULE Spec2Model ----
(***************************************************************************)
(* Duplicate-prevention / asynchronous lifecycle manager of cs-api.        *)
(*                                                                         *)
(* The three domains (research reports, LinkedIn searches, job searches)   *)
(* live in disjoint Convex tables and no function of one domain reads a    *)
(* table of another, so a behaviour follows one domain, drawn in Init.     *)
(* Times are in minutes (the source computes in milliseconds).             *)
(* Store calls (Convex mutations and queries) are atomic and succeed;      *)
(* external providers (search, embedding, enrichment, HTTP) may throw.     *)
(***************************************************************************)
EXTENDS Integers, Sequences, FiniteSets, TLC

VARIABLES domain, now, ticks, searches, tasks, last, records, sched, summary,
          calls, eval

vars ==
  <<domain, now, ticks, searches, tasks, last, records, sched, summary,
    calls, eval>>

(* ------------------------------ bounds -------------------------------- *)
\* Spec (lifecycle): units per table, clock jumps
MaxUnits == 2
MaxTicks == 1
\* DeepSpec (lifecycle with one more unit)
DeepUnits == 3
\* StoreSpec (raw candidates): units, clock jumps, candidates per fetch
StoreUnits == 2
StoreTicks == 1
MaxCands == 2
\* SchedSpec (scheduler): units, enrichments in flight per record
SchedUnits == 1
MaxInFlight == 2
MaxBatch == 2
\* RaceSpec (overlapping findOrCreate calls): callers, units
MaxCallers == 2
RaceUnits == 3
\* PureSpec (helper functions): length of an embedding vector
MaxDim == 2

(* ----------------------------- constants ------------------------------ *)
PendingTimeout == 5
ResearchStale == 7 * 24 * 60
LinkedInStale == 24 * 60
JobsStale == 24 * 60

Domains == {"research", "linkedin", "jobs"}
Keys == {"k1", "k2"}
Idents == <<"a", "b">>
NoExpiry == -1
\* the answer of the latest findOrCreate for a key; n flips at every call
NoResp ==
  [id |-> 0, status |-> "none", isExisting |-> FALSE, examined |-> 0, n |-> 0]

\* a parameter tuple that the validate functions refuse (an empty field)
BadKey == "bad"

\* the id searchJobs makes up when its setup throws: no row of any table
FallbackId == -1

StaleThreshold(d) ==
  IF d = "research" THEN ResearchStale
  ELSE IF d = "linkedin" THEN LinkedInStale ELSE JobsStale

(* the instants the clock may jump by: one minute, and up to and just     *)
(* past the pending timeout and the staleness threshold of the domain     *)
Deltas(d) ==
  {1, PendingTimeout, PendingTimeout + 1,
   StaleThreshold(d), StaleThreshold(d) + 1}

(* ------------------------- SearchUnit rows ---------------------------- *)
\* createPendingResearch / createPendingLinkedInSearch
CreatePending(k, t) ==
  [key |-> k, status |-> "pending", expiresAt |-> t + PendingTimeout,
   createdAt |-> t, updatedAt |-> t, data |-> "empty"]

\* the insert of findOrCreateJobSearch
InsertJobSearch(k, t) ==
  [key |-> k, status |-> "pending", expiresAt |-> t + PendingTimeout,
   createdAt |-> t, updatedAt |-> t, data |-> "null"]

\* updateResearchReport / updateLinkedInSearchResults: unconditional patch
UpdateResults(u, st, t) ==
  [u EXCEPT !.status = st, !.updatedAt = t,
            !.data = IF st = "complete" THEN "result" ELSE "error"]

\* updateJobSearchResults: unconditional patch, clears expiresAt
UpdateJobSearchResults(u, st, t) ==
  [u EXCEPT !.status = st, !.updatedAt = t, !.expiresAt = NoExpiry,
            !.data = IF st = "complete" THEN "result" ELSE "error"]

\* the by_status = pending, expiresAt < now filter of the cleanup mutations
CleanupSelects(u, t) == u.status = "pending" /\ u.expiresAt < t

\* cleanupExpiredEntries / cleanupExpiredLinkedInEntries
CleanupExpired(S, t) ==
  [i \in DOMAIN S |->
     IF CleanupSelects(S[i], t)
     THEN [S[i] EXCEPT !.status = "failed", !.updatedAt = t]
     ELSE S[i]]

Matching(S, k) == {i \in DOMAIN S : S[i].key = k}
Max(A) == CHOOSE x \in A : \A y \in A : y <= x
Min(A) == CHOOSE x \in A : \A y \in A : x <= y

\* withIndex(key).order("desc").first(): the latest _creationTime; 0 = null
MostRecent(S, k) == IF Matching(S, k) = {} THEN 0 ELSE Max(Matching(S, k))

\* withIndex(key).first() without order: Convex's default ascending order
FirstAscending(S, k) == IF Matching(S, k) = {} THEN 0 ELSE Min(Matching(S, k))

\* findExistingResearch / findExistingLinkedInSearch: read-time expiry
ReadExpired(u, t) ==
  u.status = "pending" /\ u.expiresAt # NoExpiry /\ u.expiresAt < t

\* a lookup that never reports a unit stale
ReadStale_Never(u, t, d) == FALSE

\* findExistingResearch / findExistingLinkedInSearch: isStale
ReadStale(u, t, d) ==
  u.createdAt < t - StaleThreshold(d) /\ u.status = "complete"

\* status as returned by findExistingResearch / findExistingLinkedInSearch
ViewStatus(u, t) == IF ReadExpired(u, t) THEN "failed" ELSE u.status

\* performResearch / searchLinkedInProfessionals: reuse the existing unit?
ReuseExisting(u, t, d) ==
  \/ ViewStatus(u, t) = "complete" /\ ~ReadStale(u, t, d)
  \/ ViewStatus(u, t) = "pending"

\* findOrCreateJobSearch: complete and completedAt > now - 24h
JobsFresh(u, t) == u.status = "complete" /\ u.updatedAt > t - JobsStale

\* a pending check that ignores expiresAt
JobsPendingValid_IgnoresExpiry(u, t) == u.status = "pending"

\* findOrCreateJobSearch: pending and expiresAt > now
JobsPendingValid(u, t) ==
  u.status = "pending" /\ u.expiresAt # NoExpiry /\ u.expiresAt > t

JobsReuse(u, t) == JobsFresh(u, t) \/ JobsPendingValid(u, t)

(* ----------------------------- Init ----------------------------------- *)
\* the value a batch run has not returned yet
NoSummary == [processed |-> 0, errors |-> 0, message |-> "none"]

\* a caller that has no findOrCreate call in progress
Callers == 1..MaxCallers
IdleCall ==
  [pc |-> "idle", key |-> "k1", fresh |-> FALSE, peers |-> {}, id |-> 0,
   created |-> FALSE]

\* no helper function is being evaluated
NoRet == [kind |-> "none"]
NoEval == [fn |-> "none", a |-> <<>>, b |-> <<>>, code |-> "", ret |-> NoRet]

Init ==
  /\ domain \in Domains
  /\ now = 0
  /\ ticks = 0
  /\ searches = <<>>
  /\ tasks = <<>>
  /\ last = [k \in Keys \cup {BadKey} |-> NoResp]
  /\ records = <<>>
  /\ sched = <<>>
  /\ summary = NoSummary
  /\ calls = [c \in Callers |-> IdleCall]
  /\ eval = NoEval

(* ----------------------------- clock ---------------------------------- *)
Tick(maxTicks) ==
  /\ ticks < maxTicks
  /\ \E d \in Deltas(domain) : now' = now + d
  /\ ticks' = ticks + 1
  /\ UNCHANGED <<domain, searches, tasks, last, records, sched, summary,
                 calls, eval>>

Resp(i, st, ex, e, prev) ==
  [id |-> i, status |-> st, isExisting |-> ex, examined |-> e,
   n |-> 1 - prev.n]

\* every domain awaits the execution before it answers
RepliesAtCreate_Awaits(d) == FALSE

\* does the creator of a unit get its answer when the unit is created?
\* performResearch and searchLinkedInProfessionals start the execution and
\* do not await it; searchJobs awaits executeJobSearch and the raw-job loop
RepliesAtCreate(d) == d # "jobs"

\* the background execution of a new unit, and what its creator was told
NewTask(d) ==
  [pc |-> "fetch", cands |-> <<>>, found |-> 0,
   reply |-> IF RepliesAtCreate(d) THEN "pending" ELSE "none"]

\* the creator's answer once the execution ends with status st
FinalReply(d, r, st) == IF RepliesAtCreate(d) THEN r ELSE st

(* ------------------- findOrCreate, research / LinkedIn ---------------- *)
\* performResearch (d = "research"), searchLinkedInProfessionals (d =
\* "linkedin"): cleanup, lookup, decision table, create pending and start
\* the background execution without awaiting it
FindOrCreate(d, k, maxUnits) ==
  /\ domain = d
  /\ LET S == CleanupExpired(searches, now)
         e == MostRecent(S, k)
     IN IF e # 0 /\ ReuseExisting(S[e], now, d)
        THEN /\ searches' = S
             /\ tasks' = tasks
             /\ last' = [last EXCEPT ![k] =
                           Resp(e, ViewStatus(S[e], now), TRUE, e, @)]
        ELSE /\ Len(searches) < maxUnits
             /\ searches' = Append(S, CreatePending(k, now))
             /\ tasks' = Append(tasks, NewTask(d))
             /\ last' = [last EXCEPT ![k] =
                           Resp(Len(S) + 1, "pending", FALSE, e, @)]
  /\ UNCHANGED <<domain, now, ticks, records, sched, summary, calls, eval>>

PerformResearch(k, maxUnits) == FindOrCreate("research", k, maxUnits)
SearchLinkedInProfessionals(k, maxUnits) ==
  FindOrCreate("linkedin", k, maxUnits)

(* ---------------------------- ResultRecords --------------------------- *)
\* isProcessed is the tri-state string of convex functions; the raw-profile
\* path of linkedin.ts passes the boolean false, kept here as "boolean_false"

FindRecord(R, a) == {j \in DOMAIN R : R[j].ident = a}

\* countryCode is one of the parameters of a job search: the two keys of the
\* model are searches of two countries
CountryCode(k) == IF k = "k1" THEN "gb" ELSE "us"

\* the by_job_unique index of jobsResults: jobId, provider, countryCode
\* (every candidate of the model comes from the one provider)
ByJobUnique(R, a, cc) ==
  {j \in DOMAIN R : R[j].ident = a /\ R[j].countryCode = cc}

\* saveJobIfNotExists: by_job_unique lookup, insert only when absent
SaveJobIfNotExists(R, a, cc, owner) ==
  IF ByJobUnique(R, a, cc) # {} THEN R
  ELSE Append(R, [ident |-> a, countryCode |-> cc,
                  owner |-> owner, isProcessed |-> "false",
                  aiData |-> "none", processingError |-> FALSE,
                  embedding |-> FALSE, rawData |-> TRUE])

\* saveLinkedInProfile as called by storeRawLinkedInProfile: by_url lookup,
\* patch of the existing profile with all the arguments, or insert
SaveLinkedInProfile(R, a, owner) ==
  IF FindRecord(R, a) # {}
  THEN LET j == Min(FindRecord(R, a))
       IN [R EXCEPT ![j] = [@ EXCEPT !.owner = owner,
                                      !.isProcessed = "boolean_false",
                                      !.aiData = "placeholder",
                                      !.rawData = TRUE]]
  ELSE Append(R, [ident |-> a, countryCode |-> "none", owner |-> owner,
                  isProcessed |-> "boolean_false",
                  aiData |-> "placeholder", processingError |-> FALSE,
                  embedding |-> FALSE, rawData |-> TRUE])

\* the store call of the raw-candidate loop of domain d
SaveRaw(d, R, a, cc, owner) ==
  IF d = "jobs" THEN SaveJobIfNotExists(R, a, cc, owner)
  ELSE SaveLinkedInProfile(R, a, owner)

\* scheduler bookkeeping of a record: enrichment actions in flight
\* (ctx.scheduler.runAfter) and how the latest one ended
NoSched == [inflight |-> 0, outcome |-> "none"]
ExtendSched(q, R) == IF Len(R) > Len(q) THEN Append(q, NoSched) ELSE q

(* ------------------------ findOrCreate, jobs -------------------------- *)
\* findOrCreateJobSearch, the mutation behind createPendingJobSearch
FindOrCreateJobSearch(k, maxUnits) ==
  /\ domain = "jobs"
  /\ LET e == FirstAscending(searches, k)
     IN IF e # 0 /\ JobsReuse(searches[e], now)
        THEN /\ UNCHANGED <<searches, tasks>>
             /\ last' = [last EXCEPT ![k] =
                           Resp(e, searches[e].status, TRUE, e, @)]
        ELSE /\ Len(searches) < maxUnits
             /\ searches' = Append(searches, InsertJobSearch(k, now))
             /\ tasks' = Append(tasks, NewTask("jobs"))
             /\ last' = [last EXCEPT ![k] =
                           Resp(Len(searches) + 1, "pending", FALSE, e, @)]
  /\ UNCHANGED <<domain, now, ticks, records, sched, summary, calls, eval>>

\* updateJobSearchLocationAndCountry: patches location and countryCode of
\* the job search i, which makes its parameters those of key k
UpdateJobSearchLocationAndCountry(i, k) ==
  /\ domain = "jobs"
  /\ i \in DOMAIN searches
  /\ searches' = [searches EXCEPT ![i].key = k, ![i].updatedAt = now]
  /\ UNCHANGED <<domain, now, ticks, tasks, last, records, sched, summary,
                 calls, eval>>

(* ----------------------- background execution ------------------------- *)
IdentSet == {Idents[j] : j \in DOMAIN Idents}
\* the candidate lists a provider may return: at most n distinct idents
CandChoices(n) ==
  (IF n >= 0 THEN {<<>>} ELSE {})
    \cup (IF n >= 1 THEN {<<a>> : a \in IdentSet} ELSE {})
    \cup (IF n >= 2 THEN {Idents} ELSE {})

\* the status patch of a unit when its execution ends:
\* updateResearchReport / updateLinkedInSearchResults / updateJobSearchResults
PatchStatus(d, u, st, t) ==
  IF d = "jobs" THEN UpdateJobSearchResults(u, st, t)
  ELSE UpdateResults(u, st, t)

\* does the execution patch status = complete as soon as the provider has
\* answered with candidates c?  searchJobs does (it stores the raw jobs
\* afterwards); executeLinkedInSearch stores the raw profiles first
PatchesBeforeStore(d, c) == d # "linkedin" \/ c = <<>>

\* executeResearch / executeLinkedInSearch / executeJobSearch: the provider
\* call returns the candidates c.  The return itself touches no table, so it
\* is one step with the store call that follows it.
FetchOk(i, n) ==
  /\ i \in DOMAIN tasks /\ tasks[i].pc = "fetch"
  /\ \E c \in (IF domain = "research" THEN {<<>>} ELSE CandChoices(n)) :
       /\ searches' = IF PatchesBeforeStore(domain, c)
                      THEN [searches EXCEPT ![i] =
                              PatchStatus(domain, @, "complete", now)]
                      ELSE searches
       /\ tasks' = [tasks EXCEPT
                      ![i].pc = IF c = <<>> THEN "done" ELSE "store",
                      ![i].cands = c,
                      ![i].found = Len(c),
                      ![i].reply = IF c = <<>>
                                   THEN FinalReply(domain, @, "complete")
                                   ELSE @]
  /\ UNCHANGED <<domain, now, ticks, last, records, sched, summary, calls,
                 eval>>

\* a catch that logs the error and marks nothing
MarkFailed_Skipped(d, u, t) == u

\* markResearchFailed / markLinkedInSearchFailed / markJobSearchFailed, as
\* called by the top-level catch of the execution
MarkFailed(d, u, t) == PatchStatus(d, u, "failed", t)

\* the provider call throws (or, for research, generateEmbedding inside
\* updateResearchReport does): the catch marks the unit failed with
\* markResearchFailed / markLinkedInSearchFailed / markJobSearchFailed
FetchThrows(i) ==
  /\ i \in DOMAIN tasks /\ tasks[i].pc = "fetch"
  /\ searches' = [searches EXCEPT ![i] = MarkFailed(domain, @, now)]
  /\ tasks' = [tasks EXCEPT
                 ![i].pc = "done",
                 ![i].reply = FinalReply(domain, @, "failed")]
  /\ UNCHANGED <<domain, now, ticks, last, records, sched, summary, calls,
                 eval>>

\* the job providers the POST /api/jobs route names (Scraping Dog primary,
\* SerpAPI fallback) and the ones executeJobSearch calls, in order
AllProviders == {"scrapingdog", "serpapi"}
TriedProviders == <<"serpapi">>
ProviderOutcomes == [AllProviders -> {"ok", "throws"}]

\* does the gateway get candidates when provider p would answer o[p]?
GatewayOk(o) == \E x \in DOMAIN TriedProviders : o[TriedProviders[x]] = "ok"

\* executeJobSearch: searchWithSerpAPI, whose throw is rethrown as
\* "Job search provider failed"
ExecuteJobSearch(i, o, n) ==
  /\ domain = "jobs"
  /\ IF GatewayOk(o) THEN FetchOk(i, n) ELSE FetchThrows(i)

\* where the task goes once its last raw candidate is handled
AfterStore(d) == IF d = "jobs" THEN "done" ELSE "update"

\* may the store call of the raw-candidate loop throw?  saveLinkedInProfile
\* declares isProcessed as a union of string literals and
\* storeRawLinkedInProfile passes the boolean false, so the argument
\* validation may reject the call; the loop body catches it and goes on
StoreMayThrow(d) == d = "linkedin"

\* one iteration of the raw-candidate loop (storeRawLinkedInProfile in
\* executeLinkedInSearch, storeRawJobResult in searchJobs)
StoreRaw(i) ==
  /\ i \in DOMAIN tasks /\ tasks[i].pc = "store"
  /\ LET a == Head(tasks[i].cands)
         rest == Tail(tasks[i].cands)
     IN /\ \/ records' = SaveRaw(domain, records, a,
                                  CountryCode(searches[i].key), i)
           \/ StoreMayThrow(domain) /\ records' = records
        /\ sched' = ExtendSched(sched, records')
        /\ tasks' = [tasks EXCEPT
                       ![i].cands = rest,
                       ![i].pc = IF rest = <<>> THEN AfterStore(domain)
                                 ELSE "store",
                       ![i].reply = IF rest = <<>> /\ AfterStore(domain) = "done"
                                    THEN FinalReply(domain, @, "complete")
                                    ELSE @]
  /\ UNCHANGED <<domain, now, ticks, searches, last, summary, calls, eval>>

\* executeLinkedInSearch after the raw-profile loop:
\* updateLinkedInSearchResults with status = complete
UpdateComplete(i) ==
  /\ i \in DOMAIN tasks /\ tasks[i].pc = "update"
  /\ searches' = [searches EXCEPT ![i] =
                    PatchStatus(domain, @, "complete", now)]
  /\ tasks' = [tasks EXCEPT ![i].pc = "done"]
  /\ UNCHANGED <<domain, now, ticks, last, records, sched, summary, calls,
                 eval>>

(* ------------------------ enrichment scheduler ------------------------ *)
\* batch sizes: the LinkedIn cron registration, the default of
\* processUnprocessedJobs
LinkedInBatch == 2
JobsBatch == 50
BatchSize(d) == IF d = "linkedin" THEN LinkedInBatch ELSE JobsBatch

\* the defaults of processUnprocessedLinkedInProfiles and of
\* triggerProfileProcessing
LinkedInDefaultBatch == 5
TriggerProfileBatch == 10

\* the batchSize arguments a manual trigger is called with
BatchArgs == 0..MaxBatch

\* a batch size that is put in place of any requested size
OrDefault_Always(b, dflt) == dflt

\* `args.batchSize || dflt`: 0 is falsy and gives the default
OrDefault(b, dflt) == IF b = 0 THEN dflt ELSE b

\* a selection filter that looks at the raw payload only
Unprocessed_AnyRaw(r) == r.rawData

\* a selection filter that leaves out the pending records only
Unprocessed_NotPending(r) == r.isProcessed # "pending" /\ r.rawData

\* the selection filter of processUnprocessedLinkedInProfiles /
\* processUnprocessedJobs: isProcessed = "false" and rawData present
Unprocessed(r) == r.isProcessed = "false" /\ r.rawData

\* .filter(...).take(n): the first n matching records in creation order
SelectUnprocessed(R, n) ==
  LET E == {j \in DOMAIN R : Unprocessed(R[j])}
  IN {j \in E : Cardinality({i \in E : i < j}) < n}

\* markProfileForProcessing
MarkProfileForProcessing(j) ==
  /\ domain = "linkedin"
  /\ j \in DOMAIN records
  /\ records' = [records EXCEPT ![j].isProcessed = "false"]
  /\ UNCHANGED <<domain, now, ticks, searches, tasks, last, sched, summary,
                 calls, eval>>

\* a summary that reports one queued record whatever was selected
BatchSummary_Queued(sel) ==
  [processed |-> 1, errors |-> 0, message |-> "processed"]

\* the summary the batch mutation returns: the early return when nothing is
\* selected, else the number of records queued
BatchSummary(sel) ==
  IF sel = {}
  THEN [processed |-> 0, errors |-> 0, message |-> "none found"]
  ELSE [processed |-> Cardinality(sel), errors |-> 0,
        message |-> "processed"]

\* one run of the batch mutation: every selected record is patched to
\* "pending" and its enrichment action is scheduled (runAfter 0); the
\* returned summary is kept in summary
RunBatch(d, n) ==
  /\ domain = d
  /\ LET sel == SelectUnprocessed(records, n)
     IN /\ \A j \in sel : sched[j].inflight < MaxInFlight
        /\ summary' = BatchSummary(sel)
        /\ records' = [j \in DOMAIN records |->
                         IF j \in sel
                         THEN [records[j] EXCEPT !.isProcessed = "pending"]
                         ELSE records[j]]
        /\ sched' = [j \in DOMAIN sched |->
                       IF j \in sel
                       THEN [sched[j] EXCEPT !.inflight = @ + 1]
                       ELSE sched[j]]
  /\ UNCHANGED <<domain, now, ticks, searches, tasks, last, calls, eval>>

ProcessUnprocessedLinkedInProfiles(b) ==
  RunBatch("linkedin", OrDefault(b, LinkedInDefaultBatch))
ProcessUnprocessedJobs(b) == RunBatch("jobs", OrDefault(b, JobsBatch))

\* the registered cron job "Process Unprocessed LinkedIn Profiles"
CronProcessLinkedIn == ProcessUnprocessedLinkedInProfiles(LinkedInBatch)

\* the manual triggers, called with batchSize b
TriggerProfileProcessing(b) ==
  ProcessUnprocessedLinkedInProfiles(OrDefault(b, TriggerProfileBatch))
TriggerJobProcessing(b) == ProcessUnprocessedJobs(OrDefault(b, JobsBatch))

\* markLinkedInProfileError / markJobError
MarkError(r) == [r EXCEPT !.processingError = TRUE, !.isProcessed = "false"]

\* an error mutation that also fails the unit the record belongs to
OwnerAfterError_Failed(S, r) ==
  [S EXCEPT ![r.owner] = [@ EXCEPT !.status = "failed", !.data = "error"]]

\* the SearchUnit table after markLinkedInProfileError / markJobError: the
\* mutation patches the record alone
OwnerAfterError(S, r) == S

\* updateLinkedInProfileWithAI / updateJobResultWithAI
UpdateWithAI(r) ==
  [r EXCEPT !.aiData = "enriched", !.embedding = TRUE, !.isProcessed = "true"]

\* the scheduled action of record j ends, as "returned", "caught", "threw"
EndAction(q, j, o) ==
  [q EXCEPT ![j] = [inflight |-> q[j].inflight - 1, outcome |-> o]]

\* processLinkedInProfileWithAI / processJobWithAI throws (environment
\* variable missing, fetch fails, response not ok): the catch marks the
\* record with the error and resets it to "false"
ActionThrows(j) ==
  /\ j \in DOMAIN records /\ sched[j].inflight > 0
  /\ records' = [records EXCEPT ![j] = MarkError(@)]
  /\ searches' = OwnerAfterError(searches, records[j])
  /\ sched' = EndAction(sched, j, "threw")
  /\ UNCHANGED <<domain, now, ticks, tasks, last, summary, calls, eval>>

\* the record the processing route works on when called for record j:
\* the jobs route fetches the job of jobIds; the LinkedIn route ignores
\* profileIds and takes the newest `limit` = 1 profile; 0 = none eligible
JobsRouteTarget(R, j) ==
  IF R[j].isProcessed # "true" /\ R[j].rawData THEN j ELSE 0

LinkedInRouteTarget(R, j) ==
  LET m == Len(R)
  IN IF R[m].isProcessed = "boolean_false" /\ R[m].rawData THEN m ELSE 0

RouteTarget(d, R, j) ==
  IF d = "jobs" THEN JobsRouteTarget(R, j) ELSE LinkedInRouteTarget(R, j)

\* what the action does when the route caught a throwing enrichment: the
\* route answers success: true, so the action returns and marks nothing
AfterCaught(r) == r

\* processJobWithAI / processLinkedInProfileWithAI with the route answering
\* 200: the enrichment of the route's target succeeds, or it throws inside
\* the route's per-record try/catch
ActionReturns(j) ==
  /\ j \in DOMAIN records /\ sched[j].inflight > 0
  /\ LET t == RouteTarget(domain, records, j)
     IN \/ /\ t = 0
           /\ records' = records
           /\ sched' = EndAction(sched, j, "returned")
        \/ /\ t # 0
           /\ records' = [records EXCEPT ![t] = UpdateWithAI(@)]
           /\ sched' = EndAction(sched, j, "returned")
        \/ /\ t # 0
           /\ records' = [records EXCEPT ![j] = AfterCaught(@)]
           /\ sched' = EndAction(sched, j, "caught")
  /\ UNCHANGED <<domain, now, ticks, searches, tasks, last, summary, calls,
                 eval>>

\* the timeout of parseLinkedInProfile, in minutes, and the times an AI
\* call may take
EnrichTimeout == 5
Durations == {1, EnrichTimeout + 1}

\* does the parse call of domain d return the result of an AI call that
\* answers after dur minutes?  parseLinkedInProfile races the call against
\* a 5 minute timer; parseJobWithAI awaits generateObject alone
ParseReturns(d, dur) == d = "linkedin" => dur <= EnrichTimeout

\* the enrichment of the route's target when the AI call answers after dur
\* minutes: the result is written, or the timeout is thrown inside the
\* route's per-record try/catch
TimedEnrichment(j, dur) ==
  /\ j \in DOMAIN records /\ sched[j].inflight > 0
  /\ LET t == RouteTarget(domain, records, j)
     IN /\ t # 0
        /\ IF ParseReturns(domain, dur)
           THEN /\ records' = [records EXCEPT ![t] = UpdateWithAI(@)]
                /\ sched' = EndAction(sched, j, "returned")
           ELSE /\ records' = [records EXCEPT ![j] = AfterCaught(@)]
                /\ sched' = EndAction(sched, j, "caught")
  /\ UNCHANGED <<domain, now, ticks, searches, tasks, last, summary, calls,
                 eval>>

\* POST of the manual job processing route: any stored job with raw data,
\* whatever its isProcessed, is parsed and updated.  A throwing enrichment
\* answers 500 and writes nothing, so only the success is a step.
ManualProcessJob(j) ==
  /\ domain = "jobs"
  /\ j \in DOMAIN records /\ records[j].rawData
  /\ records' = [records EXCEPT ![j] = UpdateWithAI(@)]
  /\ UNCHANGED <<domain, now, ticks, searches, tasks, last, sched, summary,
                 calls, eval>>

(* ------------------------- requests that fail ------------------------- *)
\* a route that hands the body to the library unchecked
Validates_Never(d) == FALSE

\* validateResearchParams / validateLinkedInSearchParams /
\* validateJobSearchParams, called by the POST route of each domain before
\* anything else
Validates(d) == TRUE

\* POST with the parameters BadKey: the validate call throws and the catch
\* answers 400; a route without the check goes on to the library call
PostInvalid(maxUnits) ==
  IF Validates(domain)
  THEN /\ last' = [last EXCEPT ![BadKey] = Resp(0, "rejected", FALSE, 0, @)]
       /\ UNCHANGED <<domain, now, ticks, searches, tasks, records, sched,
                      summary,
                      calls, eval>>
  ELSE \/ PerformResearch(BadKey, maxUnits)
       \/ SearchLinkedInProfessionals(BadKey, maxUnits)
       \/ FindOrCreateJobSearch(BadKey, maxUnits)

\* searchJobs when its setup throws (validateJobSearchParams on the
\* parameters of a library caller, or createPendingJobSearch): the outer
\* catch answers failed with generateSearchId() and writes nothing
SearchJobsSetupFails(k) ==
  /\ domain = "jobs"
  /\ last' = [last EXCEPT ![k] = Resp(FallbackId, "failed", FALSE, 0, @)]
  /\ UNCHANGED <<domain, now, ticks, searches, tasks, records, sched, summary,
                 calls, eval>>

(* --------------------------- status polling --------------------------- *)
\* the GET handlers read the unit by id and write nothing: what a poll of
\* unit u answers at time t, as status and payload

\* GET /api/research/status/[reportId]: read-time expiry, then the stored
\* status with data (complete) or data.error (failed)
GetResearchStatus(u, t) ==
  IF u.status = "pending" /\ u.expiresAt # NoExpiry /\ u.expiresAt < t
  THEN [status |-> "failed", data |-> "timed out", jobs |-> {}]
  ELSE [status |-> u.status,
        data |-> IF u.status = "pending" THEN "none" ELSE u.data,
        jobs |-> {}]

\* GET of a LinkedIn search by searchId: the stored status, data if complete
GetLinkedInSearchStatus(u, t) ==
  [status |-> u.status,
   data |-> IF u.status = "complete" THEN u.data ELSE "none",
   jobs |-> {}]

\* GET of the job search status: the stored status; the jobs stored for the
\* search are returned with a complete and with a pending search
GetJobSearchStatus(u, J, t) ==
  IF u.status = "complete" /\ u.data # "null"
  THEN [status |-> u.status, data |-> u.data, jobs |-> J]
  ELSE IF u.status = "pending"
  THEN [status |-> u.status, data |-> "none", jobs |-> J]
  ELSE [status |-> u.status, data |-> "none", jobs |-> {}]

\* getJobResults({ searchId }): the records stored for unit i
JobResultsOf(R, i) == {R[j] : j \in {x \in DOMAIN R : R[x].owner = i}}

\* the poll of unit i in domain d
Poll(d, S, R, i, t) ==
  IF d = "research" THEN GetResearchStatus(S[i], t)
  ELSE IF d = "linkedin" THEN GetLinkedInSearchStatus(S[i], t)
  ELSE GetJobSearchStatus(S[i], JobResultsOf(R, i), t)

(* --------------------------- specifications --------------------------- *)
\* lifecycle of the units; the provider returns no candidates
Lifecycle(maxUnits) ==
  \/ Tick(MaxTicks)
  \/ \E k \in Keys : PerformResearch(k, maxUnits)
  \/ \E k \in Keys : SearchLinkedInProfessionals(k, maxUnits)
  \/ \E k \in Keys : FindOrCreateJobSearch(k, maxUnits)
  \/ \E i \in 1..maxUnits : FetchOk(i, 0)
  \/ \E i \in 1..maxUnits : FetchThrows(i)

Next == Lifecycle(MaxUnits)

Spec == Init /\ [][Next]_vars

DeepNext == Lifecycle(DeepUnits)

DeepSpec == Init /\ [][DeepNext]_vars

\* executions that store raw candidates
StoreNext ==
  \/ Tick(StoreTicks)
  \/ \E k \in Keys : PerformResearch(k, StoreUnits)
  \/ \E k \in Keys : SearchLinkedInProfessionals(k, StoreUnits)
  \/ \E k \in Keys : FindOrCreateJobSearch(k, StoreUnits)
  \/ \E i \in 1..StoreUnits : FetchOk(i, MaxCands)
  \/ \E i \in 1..StoreUnits : FetchThrows(i)
  \/ \E i \in 1..StoreUnits : StoreRaw(i)
  \/ \E i \in 1..StoreUnits : UpdateComplete(i)

StoreSpec == Init /\ [][StoreNext]_vars

\* one unit per table, its raw candidates, and the enrichment scheduler
Sched(K) ==
  \/ \E k \in K : PerformResearch(k, SchedUnits)
  \/ \E k \in K : SearchLinkedInProfessionals(k, SchedUnits)
  \/ \E k \in K : FindOrCreateJobSearch(k, SchedUnits)
  \/ \E i \in 1..SchedUnits : FetchOk(i, MaxCands)
  \/ \E i \in 1..SchedUnits : FetchThrows(i)
  \/ \E i \in 1..SchedUnits : StoreRaw(i)
  \/ \E i \in 1..SchedUnits : UpdateComplete(i)
  \/ \E j \in DOMAIN Idents : MarkProfileForProcessing(j)
  \/ CronProcessLinkedIn
  \/ \E b \in BatchArgs : TriggerProfileProcessing(b)
  \/ \E b \in BatchArgs : TriggerJobProcessing(b)
  \/ \E j \in DOMAIN Idents : ActionThrows(j)
  \/ \E j \in DOMAIN Idents : ActionReturns(j)
  \/ \E j \in DOMAIN Idents : ManualProcessJob(j)
  \/ \E j \in DOMAIN Idents, dur \in Durations : TimedEnrichment(j, dur)

SchedNext == Sched(Keys)

SchedSpec == Init /\ [][SchedNext]_vars

\* the scheduler over the records of the searches of one key
BatchKeys == {"k1"}
BatchNext == Sched(BatchKeys)

BatchSpec == Init /\ [][BatchNext]_vars

\* what runs with no manual trigger: the searches, their executions, the
\* registered cron job and the actions it schedules.  crons.ts registers
\* processUnprocessedLinkedInProfiles and no job of the jobs tables.
\* markProfileForProcessing is a call of a client, under no fairness.
Execution ==
  \/ \E i \in 1..SchedUnits : FetchOk(i, MaxCands)
  \/ \E i \in 1..SchedUnits : FetchThrows(i)
  \/ \E i \in 1..SchedUnits : StoreRaw(i)
  \/ \E i \in 1..SchedUnits : UpdateComplete(i)

ScheduledActions ==
  \/ \E j \in DOMAIN Idents : ActionThrows(j)
  \/ \E j \in DOMAIN Idents : ActionReturns(j)

CronNext ==
  \/ \E k \in Keys : PerformResearch(k, SchedUnits)
  \/ \E k \in Keys : SearchLinkedInProfessionals(k, SchedUnits)
  \/ \E k \in Keys : FindOrCreateJobSearch(k, SchedUnits)
  \/ Execution
  \/ \E j \in DOMAIN Idents : MarkProfileForProcessing(j)
  \/ CronProcessLinkedIn
  \/ ScheduledActions

\* the cron job is run at every interval, started executions and scheduled
\* actions end
CronSpec ==
  /\ Init /\ [][CronNext]_vars
  /\ WF_vars(CronProcessLinkedIn)
  /\ WF_vars(Execution)
  /\ WF_vars(ScheduledActions)

\* the scheduler with its manual triggers, where every scheduled action
\* (runAfter 0) runs and ends; the triggers and the manual routes are calls
\* of a client, under no fairness
DispatchSpec ==
  /\ Init /\ [][BatchNext]_vars
  /\ WF_vars(ScheduledActions)

\* a batch run that takes one record (batchSize 1), through either trigger
SingleBatch == TriggerProfileProcessing(1) \/ TriggerJobProcessing(1)

\* the scheduler where batches of one record are run again and again and
\* every scheduled action runs and ends
RetrySpec ==
  /\ Init /\ [][BatchNext]_vars
  /\ WF_vars(SingleBatch)
  /\ WF_vars(ScheduledActions)

\* the searches with the requests that fail before any unit is written
RequestNext ==
  \/ \E k \in Keys : PerformResearch(k, SchedUnits)
  \/ \E k \in Keys : SearchLinkedInProfessionals(k, SchedUnits)
  \/ \E k \in Keys : FindOrCreateJobSearch(k, SchedUnits)
  \/ \E i \in 1..SchedUnits : FetchOk(i, 0)
  \/ \E i \in 1..SchedUnits : FetchThrows(i)
  \/ \E i \in 1..SchedUnits, o \in ProviderOutcomes : ExecuteJobSearch(i, o, 0)
  \/ PostInvalid(SchedUnits)
  \/ \E k \in Keys \cup {BadKey} : SearchJobsSetupFails(k)

RequestSpec == Init /\ [][RequestNext]_vars

\* the searches and the mutation that rewrites the parameters of a search
KeyNext ==
  \/ Tick(MaxTicks)
  \/ \E k \in Keys : PerformResearch(k, MaxUnits)
  \/ \E k \in Keys : SearchLinkedInProfessionals(k, MaxUnits)
  \/ \E k \in Keys : FindOrCreateJobSearch(k, MaxUnits)
  \/ \E i \in 1..MaxUnits : FetchOk(i, 0)
  \/ \E i \in 1..MaxUnits : FetchThrows(i)
  \/ \E i \in 1..MaxUnits, k \in Keys :
       UpdateJobSearchLocationAndCountry(i, k)

KeySpec == Init /\ [][KeyNext]_vars

(* ------------------- overlapping findOrCreate calls ------------------- *)
(* performResearch and searchLinkedInProfessionals make three store calls *)
(* in a row (the cleanup mutation, the lookup query, the create mutation) *)
(* and other callers' store calls can run between them; searchJobs makes  *)
(* one, the findOrCreateJobSearch mutation. A call lasts far less than    *)
(* the one-minute grain of the clock, so the clock stands still while a   *)
(* call is in progress; the specification of the overlapping calls has   *)
(* no clock step at all, and its units leave pending through their        *)
(* executions.                                                            *)
InFlight(c) == calls[c].pc \notin {"idle", "done"}

\* is there a unit for key k that a lookup at time t would reuse?
HasReusable(S, k, t, d) ==
  \E i \in Matching(S, k) :
    IF d = "jobs" THEN JobsReuse(S[i], t) ELSE ReuseExisting(S[i], t, d)

\* caller c invokes findOrCreate for key k; the callers already in
\* progress for k are its peers
CallBegin(c, k) ==
  /\ calls[c].pc = "idle"
  /\ calls' =
       [x \in Callers |->
          IF x = c
          THEN [pc |-> "begun", key |-> k,
                fresh |-> HasReusable(searches, k, now, domain),
                peers |-> {y \in Callers \ {c} :
                             InFlight(y) /\ calls[y].key = k},
                id |-> 0, created |-> FALSE]
          ELSE IF InFlight(x) /\ calls[x].key = k
               THEN [calls[x] EXCEPT !.peers = @ \cup {c}]
               ELSE calls[x]]
  /\ UNCHANGED <<domain, now, ticks, searches, tasks, last, records, sched,
                 summary, eval>>

\* performResearch / searchLinkedInProfessionals: await cleanupExpired...()
CallCleanup(c) ==
  /\ domain \in {"research", "linkedin"}
  /\ calls[c].pc = "begun"
  /\ searches' = CleanupExpired(searches, now)
  /\ calls' = [calls EXCEPT ![c].pc = "cleaned"]
  /\ UNCHANGED <<domain, now, ticks, tasks, last, records, sched, summary,
                 eval>>

\* the lookup query and the branch on its result: return the existing
\* unit, or fall through to the create
CallFind(c) ==
  /\ domain \in {"research", "linkedin"}
  /\ calls[c].pc = "cleaned"
  /\ LET e == MostRecent(searches, calls[c].key)
     IN calls' =
          IF e # 0 /\ ReuseExisting(searches[e], now, domain)
          THEN [calls EXCEPT ![c].pc = "done", ![c].id = e]
          ELSE [calls EXCEPT ![c].pc = "create"]
  /\ UNCHANGED <<domain, now, ticks, searches, tasks, last, records, sched,
                 summary, eval>>

\* a create that inserts nothing when a pending unit of the key is stored
CreateRow_IfAbsent(S, k, t) ==
  IF \E i \in Matching(S, k) : S[i].status = "pending"
  THEN S
  ELSE Append(S, CreatePending(k, t))

\* createPendingResearch / createPendingLinkedInSearch: a plain insert
CreateRow(S, k, t) == Append(S, CreatePending(k, t))

\* the create mutation, and the execution started in the background
CallCreate(c, maxUnits) ==
  /\ domain \in {"research", "linkedin"}
  /\ calls[c].pc = "create"
  /\ Len(searches) < maxUnits
  /\ searches' = CreateRow(searches, calls[c].key, now)
  /\ tasks' = Append(tasks, NewTask(domain))
  /\ calls' = [calls EXCEPT ![c].pc = "done", ![c].id = Len(searches) + 1,
                            ![c].created = TRUE]
  /\ UNCHANGED <<domain, now, ticks, last, records, sched, summary, eval>>

\* createPendingJobSearch: the findOrCreateJobSearch mutation, one
\* transaction
CallJobSearch(c, maxUnits) ==
  /\ domain = "jobs"
  /\ calls[c].pc = "begun"
  /\ LET k == calls[c].key
         e == FirstAscending(searches, k)
     IN IF e # 0 /\ JobsReuse(searches[e], now)
        THEN /\ UNCHANGED <<searches, tasks>>
             /\ calls' = [calls EXCEPT ![c].pc = "done", ![c].id = e]
        ELSE /\ Len(searches) < maxUnits
             /\ searches' = Append(searches, InsertJobSearch(k, now))
             /\ tasks' = Append(tasks, NewTask("jobs"))
             /\ calls' = [calls EXCEPT ![c].pc = "done",
                                       ![c].id = Len(searches) + 1,
                                       ![c].created = TRUE]
  /\ UNCHANGED <<domain, now, ticks, last, records, sched, summary, eval>>

\* the caller has its answer and may call again
CallReturn(c) ==
  /\ calls[c].pc = "done"
  /\ calls' = [calls EXCEPT ![c] = IdleCall]
  /\ UNCHANGED <<domain, now, ticks, searches, tasks, last, records, sched,
                 summary, eval>>

\* the callers ask for the same parameters
RaceKeys == {"k1"}

RaceNext ==
  \/ \E c \in Callers, k \in RaceKeys : CallBegin(c, k)
  \/ \E c \in Callers : CallCleanup(c)
  \/ \E c \in Callers : CallFind(c)
  \/ \E c \in Callers : CallCreate(c, RaceUnits)
  \/ \E c \in Callers : CallJobSearch(c, RaceUnits)
  \/ \E c \in Callers : CallReturn(c)
  \/ \E i \in 1..RaceUnits : FetchOk(i, 0)
  \/ \E i \in 1..RaceUnits : FetchThrows(i)

RaceSpec == Init /\ [][RaceNext]_vars

(* -------------------------- helper functions -------------------------- *)
\* embedding vectors: small integer components, up to MaxDim of them
Comps == {-1, 0, 1}
Vectors == UNION {[1..n -> Comps] : n \in 0..MaxDim}

\* the loop of both cosine functions: sum of x[i] * y[i] over i < a.length
RECURSIVE SumProducts(_, _, _)
SumProducts(x, y, n) ==
  IF n = 0 THEN 0 ELSE x[n] * y[n] + SumProducts(x, y, n - 1)

\* a returned number dotProduct / (normA * normB), kept as its numerator
\* and the square of its denominator; 0 is 0 / 1
Number(num, den2) == [kind |-> "number", num |-> num, den2 |-> den2]
Threw == [kind |-> "throws"]

\* cosineSimilarity of convex/functions: 0 on a length mismatch and on a
\* zero norm
CosineSimilarity(a, b) ==
  IF Len(a) # Len(b) THEN Number(0, 1)
  ELSE LET normA2 == SumProducts(a, a, Len(a))
           normB2 == SumProducts(b, b, Len(a))
       IN IF normA2 = 0 \/ normB2 = 0 THEN Number(0, 1)
          ELSE Number(SumProducts(a, b, Len(a)), normA2 * normB2)

\* calculateCosineSimilarity of lib/embeddings: throws on a length mismatch
CalculateCosineSimilarity(a, b) ==
  IF Len(a) # Len(b) THEN Threw
  ELSE LET normA2 == SumProducts(a, a, Len(a))
           normB2 == SumProducts(b, b, Len(a))
       IN IF normA2 = 0 \/ normB2 = 0 THEN Number(0, 1)
          ELSE Number(SumProducts(a, b, Len(a)), normA2 * normB2)

\* localizationMap of getSerpAPILocalization
Entry(hl, gl, dom) ==
  [kind |-> "entry", hl |-> hl, gl |-> gl, google_domain |-> dom]
LocalizationMap ==
  [c \in {"gb", "us", "ca", "au", "ie", "nz", "za", "de", "fr", "es", "it",
          "nl", "be", "ch", "at", "in", "sg", "hk", "jp", "br", "mx"} |->
     CASE c = "gb" -> Entry("en", "uk", "google.co.uk")
       [] c = "us" -> Entry("en", "us", "google.com")
       [] c = "ca" -> Entry("en", "ca", "google.ca")
       [] c = "au" -> Entry("en", "au", "google.com.au")
       [] c = "ie" -> Entry("en", "ie", "google.ie")
       [] c = "nz" -> Entry("en", "nz", "google.co.nz")
       [] c = "za" -> Entry("en", "za", "google.co.za")
       [] c = "de" -> Entry("de", "de", "google.de")
       [] c = "fr" -> Entry("fr", "fr", "google.fr")
       [] c = "es" -> Entry("es", "es", "google.es")
       [] c = "it" -> Entry("it", "it", "google.it")
       [] c = "nl" -> Entry("nl", "nl", "google.nl")
       [] c = "be" -> Entry("nl", "be", "google.be")
       [] c = "ch" -> Entry("de", "ch", "google.ch")
       [] c = "at" -> Entry("de", "at", "google.at")
       [] c = "in" -> Entry("en", "in", "google.co.in")
       [] c = "sg" -> Entry("en", "sg", "google.com.sg")
       [] c = "hk" -> Entry("en", "hk", "google.com.hk")
       [] c = "jp" -> Entry("ja", "jp", "google.co.jp")
       [] c = "br" -> Entry("pt", "br", "google.com.br")
       [] c = "mx" -> Entry("es", "mx", "google.com.mx")]

\* the country codes a request is made with: known codes in either case,
\* unknown codes, and strings that name a property every object inherits
CountryCodes ==
  {"gb", "GB", "us", "DE", "jp", "xx", "zz", "UK", "constructor", "__proto__"}

\* countryCode.toLowerCase(), on CountryCodes
ToLowerCase(c) ==
  CASE c = "GB" -> "gb"
    [] c = "DE" -> "de"
    [] c = "UK" -> "uk"
    [] OTHER -> c

\* the all-lower-case property names an object literal inherits from
\* Object.prototype; their values are objects, which are truthy
InheritedProps == {"constructor", "__proto__"}

\* localizationMap[key]: an own property, else an inherited one, else
\* undefined
PropertyOf(key) ==
  IF key \in DOMAIN LocalizationMap THEN LocalizationMap[key]
  ELSE IF key \in InheritedProps THEN [kind |-> "inherited", prop |-> key]
  ELSE [kind |-> "undefined"]

\* getSerpAPILocalization:
\* localizationMap[countryCode.toLowerCase()] || localizationMap["gb"]
GetSerpAPILocalization(c) ==
  LET v == PropertyOf(ToLowerCase(c))
  IN IF v.kind = "undefined" THEN LocalizationMap["gb"] ELSE v

CosineFns == {"cosineSimilarity", "calculateCosineSimilarity"}

\* the evaluations a run starts with: a function and its arguments
PureInputs ==
  {[fn |-> f, a |-> x, b |-> y, code |-> "", ret |-> NoRet] :
     f \in CosineFns, x \in Vectors, y \in Vectors}
  \cup {[fn |-> "getSerpAPILocalization", a |-> <<>>, b |-> <<>>,
          code |-> c, ret |-> NoRet] : c \in CountryCodes}

PureInit ==
  /\ domain \in Domains
  /\ now = 0
  /\ ticks = 0
  /\ searches = <<>>
  /\ tasks = <<>>
  /\ last = [k \in Keys \cup {BadKey} |-> NoResp]
  /\ records = <<>>
  /\ sched = <<>>
  /\ summary = NoSummary
  /\ calls = [c \in Callers |-> IdleCall]
  /\ eval \in PureInputs

Apply(f, r) ==
  /\ eval.fn = f
  /\ eval.ret = NoRet
  /\ eval' = [eval EXCEPT !.ret = r]
  /\ UNCHANGED <<domain, now, ticks, searches, tasks, last, records, sched,
                 summary, calls>>

ApplyCosineSimilarity ==
  Apply("cosineSimilarity", CosineSimilarity(eval.a, eval.b))
ApplyCalculateCosineSimilarity ==
  Apply("calculateCosineSimilarity", CalculateCosineSimilarity(eval.a, eval.b))

ApplyGetSerpAPILocalization ==
  Apply("getSerpAPILocalization", GetSerpAPILocalization(eval.code))

PureNext ==
  \/ ApplyCosineSimilarity
  \/ ApplyCalculateCosineSimilarity
  \/ ApplyGetSerpAPILocalization

PureSpec == PureInit /\ [][PureNext]_vars

(* ------------------------------ properties ---------------------------- *)
\* the step is a findOrCreate call for key k
Called(k) == last'[k].n # last[k].n

\* the call for key k created a new pending unit with a new id
CreatedNew(k) ==
  /\ ~last'[k].isExisting
  /\ last'[k].id = Len(searches) + 1
  /\ Len(searches') = Len(searches) + 1
  /\ searches'[last'[k].id].key = k
  /\ searches'[last'[k].id].status = "pending"

\* the stored unit is pending with its expiry in the past
StoredExpired(u, t) ==
  u.status = "pending" /\ u.expiresAt # NoExpiry /\ u.expiresAt < t

\* the stored unit is complete and was last updated before the threshold
StoredStale(u, t, d) ==
  u.status = "complete" /\ u.updatedAt < t - StaleThreshold(d)

\* C1: when the previous findOrCreate for a key returned a unit that is
\* still pending and not expired, the next findOrCreate for that key returns
\* the same unit id with isExisting = true, whatever older units of the key
\* the store holds.
C1_SecondCallReturnsSameUnit ==
  [][\A k \in Keys :
       (/\ Called(k)
        /\ last[k].id \in DOMAIN searches
        /\ searches[last[k].id].status = "pending"
        /\ searches[last[k].id].expiresAt > now)
       => (last'[k].id = last[k].id /\ last'[k].isExisting)]_vars

\* C2: once the stored status of a unit is complete or failed, no step
\* writes a different status to it.
C2_TerminalStatusNeverChanges ==
  [][\A i \in DOMAIN searches :
       searches[i].status \in {"complete", "failed"}
       => searches'[i].status = searches[i].status]_vars

\* C3: no raw candidate of a unit is written to the store while the
\* status of that unit is already complete.
C3_NoRawWriteOnceComplete ==
  [][\A i \in DOMAIN tasks :
       (tasks[i].pc = "store" /\ tasks'[i].cands # tasks[i].cands
        /\ records' # records)
       => searches[i].status # "complete"]_vars

\* C4: when the enrichment dispatched for a record throws, in the scheduled
\* action or in the route it calls, the record ends unprocessed ("false")
\* with processingError set and the next batch selects it again.
C4_ThrowingEnrichmentResetsRecord ==
  [][\A j \in DOMAIN records :
       (/\ sched'[j].inflight < sched[j].inflight
        /\ sched'[j].outcome \in {"threw", "caught"})
       => (/\ records'[j].isProcessed = "false"
           /\ records'[j].processingError
           /\ j \in SelectUnprocessed(records', BatchSize(domain)))]_vars

\* C5: when the enrichment dispatched for a record returns without any
\* throw, the record ends processed ("true") with the enriched payload.
C5_SuccessfulEnrichmentMarksProcessed ==
  [][\A j \in DOMAIN records :
       (/\ sched'[j].inflight < sched[j].inflight
        /\ sched'[j].outcome = "returned")
       => (/\ records'[j].isProcessed = "true"
           /\ records'[j].aiData = "enriched")]_vars

\* C6: findOrCreate never returns a unit that is stored pending with
\* expiresAt in the past, and when the unit it examines is such a unit it
\* creates a new pending unit with a new id.
C6_ExpiredPendingIsReplaced ==
  [][\A k \in Keys :
       Called(k) =>
         LET r == last'[k]
         IN /\ r.id \in DOMAIN searches
                 => ~StoredExpired(searches[r.id], now)
            /\ (r.examined # 0 /\ StoredExpired(searches[r.examined], now))
                 => CreatedNew(k)]_vars

\* a call has replaced a unit that was pending and expired when it was
\* examined: still pending in the store (jobs), or failed by the cleanup
\* pass of that same call (research, LinkedIn)
C6_Witness ==
  \E k \in Keys :
    LET r == last[k]
    IN /\ r.examined # 0 /\ ~r.isExisting /\ r.id \in DOMAIN searches
       /\ LET u == searches[r.examined]
              c == searches[r.id].createdAt
          IN \/ u.status = "pending" /\ u.expiresAt < c
             \/ /\ u.status = "failed" /\ u.data = "empty"
                /\ u.updatedAt = c /\ u.expiresAt < c

\* C7: findOrCreate never returns a unit that is complete with updatedAt
\* older than the threshold of its domain (7 days research, 24 hours job and
\* profile search), and when the unit it examines is such a unit it creates
\* a new pending unit with a new id.
C7_StaleCompleteIsReplaced ==
  [][\A k \in Keys :
       Called(k) =>
         LET r == last'[k]
         IN /\ r.id \in DOMAIN searches
                 => ~StoredStale(searches[r.id], now, domain)
            /\ (r.examined # 0
                /\ StoredStale(searches[r.examined], now, domain))
                 => CreatedNew(k)]_vars

\* a call has replaced a unit that was complete and older than the
\* threshold when it was examined
C7_Witness ==
  \E k \in Keys :
    LET r == last[k]
    IN /\ r.examined # 0 /\ ~r.isExisting /\ r.id \in DOMAIN searches
       /\ searches[r.examined].status = "complete"
       /\ searches[r.examined].updatedAt
            < searches[r.id].createdAt - StaleThreshold(domain)

\* C8: when the most recent unit of a key is complete and younger than the
\* threshold of its domain, findOrCreate returns that unit with
\* isExisting = true and creates no unit, in every domain.
C8_FreshCompleteIsReused ==
  [][\A k \in Keys :
       (/\ Called(k)
        /\ MostRecent(searches, k) # 0
        /\ searches[MostRecent(searches, k)].status = "complete"
        /\ searches[MostRecent(searches, k)].createdAt
             > now - StaleThreshold(domain))
       => (/\ last'[k].id = MostRecent(searches, k)
           /\ last'[k].isExisting
           /\ last'[k].status = "complete"
           /\ Len(searches') = Len(searches))]_vars

\* C9: the unit findOrCreate examines is the most recently created unit
\* with the key of the call.
C9_ExaminesMostRecent ==
  [][\A k \in Keys :
       Called(k) => last'[k].examined = MostRecent(searches, k)]_vars

ProcessingState(r) ==
  IF r.isProcessed \in {"false", "boolean_false"} THEN "unprocessed"
  ELSE IF r.isProcessed = "pending" THEN "processing" ELSE "processed"

\* C12: the processingState of a record only moves unprocessed ->
\* processing, processing -> processed with the enriched payload written,
\* or from processing / processed back to unprocessed when its dispatched
\* enrichment threw; no step makes any other change.
C12_OnlyLegalTransitions ==
  [][\A j \in DOMAIN records :
       LET a == ProcessingState(records[j])
           b == ProcessingState(records'[j])
       IN \/ a = b
          \/ a = "unprocessed" /\ b = "processing"
          \/ /\ a = "processing" /\ b = "processed"
             /\ records'[j].aiData = "enriched"
          \/ /\ a \in {"processing", "processed"} /\ b = "unprocessed"
             /\ sched'[j].inflight < sched[j].inflight
             /\ sched'[j].outcome = "threw"]_vars
\* C13: no two persisted ResultRecords share the same dedupIdentity (and
\* provider): a candidate that is already stored is never stored a second
\* time, whichever SearchUnit it arrives from.
C13_NoDuplicateRecords ==
  \A j1, j2 \in DOMAIN records :
    records[j1].ident = records[j2].ident => j1 = j2
\* the ResultRecords whose owning unit is i
OwnedBy(R, i) == {j \in DOMAIN R : R[j].owner = i}

\* C14: when the execution of unit X ends after a fetch that returned N raw
\* candidates, X is complete and exactly N ResultRecords are owned by X,
\* each of them unprocessed.
C14_CompleteWithNOwnedRecords ==
  [][\A i \in DOMAIN tasks :
       (tasks[i].pc \in {"store", "update"} /\ tasks'[i].pc = "done")
       => /\ searches'[i].status = "complete"
          /\ Cardinality(OwnedBy(records', i)) = tasks'[i].found
          /\ \A j \in OwnedBy(records', i) :
               ProcessingState(records'[j]) = "unprocessed"]_vars
\* the records of R in processingState unprocessed
UnprocessedSet(R) ==
  {j \in DOMAIN R : ProcessingState(R[j]) = "unprocessed"}

\* C15: a batch run asked for batchSize b never takes more than b records:
\* with m unprocessed records and m >= b it moves exactly b of them out of
\* unprocessed and leaves the other m - b unprocessed.
C15_BatchTakesExactlyBatchSize ==
  [][\A b \in BatchArgs :
       (TriggerProfileProcessing(b) \/ TriggerJobProcessing(b))
       => LET m == Cardinality(UnprocessedSet(records))
              moved == UnprocessedSet(records) \ UnprocessedSet(records')
          IN /\ Cardinality(moved) <= b
             /\ m >= b => /\ Cardinality(moved) = b
                          /\ Cardinality(UnprocessedSet(records')) = m - b]_vars
C18_UnprocessedEventuallySelected ==
  \A j \in DOMAIN Idents :
    (/\ j \in DOMAIN records
     /\ ProcessingState(records[j]) = "unprocessed" /\ records[j].rawData)
    ~> (j \in DOMAIN records /\ sched[j].inflight > 0)
\* C19: a poll of a unit that is pending in storage with expiresAt in the
\* past answers failed, in every domain.
C19_ExpiredPendingPolledAsFailed ==
  \A i \in DOMAIN searches :
    StoredExpired(searches[i], now)
    => Poll(domain, searches, records, i, now).status = "failed"

\* C20: once a poll of a unit answers complete or failed, every later poll
\* of that unit answers the same status and the same payload: no step
\* changes the answer of a poll that is terminal.
C20_TerminalPollIsStable ==
  [][\A i \in DOMAIN searches :
       Poll(domain, searches, records, i, now).status \in {"complete", "failed"}
       => Poll(domain, searches', records', i, now')
            = Poll(domain, searches, records, i, now)]_vars
\* C21: every call to findOrCreate answers pending, complete or failed with
\* the id of a persisted SearchUnit, so that a poll of that id finds it.
C21_AnswerNamesPersistedUnit ==
  [][\A k \in Keys :
       Called(k)
       => /\ last'[k].status \in {"pending", "complete", "failed"}
          /\ last'[k].id \in DOMAIN searches']_vars

C23_EnrichmentErrorLeavesUnit ==
  [][\A j \in DOMAIN records :
       (/\ sched'[j].inflight < sched[j].inflight
        /\ sched'[j].outcome \in {"threw", "caught"})
       => \A i \in DOMAIN searches :
            /\ searches'[i].status = searches[i].status
            /\ searches'[i].data = searches[i].data]_vars

\* a record carries the error of its enrichment and its unit is complete
C23_Witness ==
  \E j \in DOMAIN records :
    /\ sched[j].outcome = "threw" /\ records[j].processingError
    /\ searches[records[j].owner].status = "complete"
\* C24: a job search whose primary provider fails falls back to the
\* secondary provider: when at least one of the two providers would answer,
\* the execution does not end failed.
C24_FailsOnlyIfBothProvidersFail ==
  [][\A i \in DOMAIN tasks : \A o \in ProviderOutcomes :
       (ExecuteJobSearch(i, o, 0) /\ \E p \in AllProviders : o[p] = "ok")
       => searches'[i].status = "complete"]_vars
\* C25: an enrichment whose AI call has not answered within 5 minutes is
\* reported as a failure, in the job domain as in the profile domain.
C25_EnrichmentPastCeilingFails ==
  [][\A j \in DOMAIN records : \A dur \in Durations :
       (TimedEnrichment(j, dur) /\ dur > EnrichTimeout)
       => sched'[j].outcome \in {"threw", "caught"}]_vars
\* C26: expiresAt is set only while the stored status is pending: every
\* unit whose stored status is complete or failed has no expiresAt.
C26_ExpiresAtOnlyWhilePending ==
  \A i \in DOMAIN searches :
    searches[i].status \in {"complete", "failed"}
    => searches[i].expiresAt = NoExpiry
\* C27: the dedup-key parameters of a SearchUnit never change after the
\* unit is created.
C27_ParametersImmutable ==
  [][\A i \in DOMAIN searches : searches'[i].key = searches[i].key]_vars
\* C28: a record that has a processingError is unprocessed; so a record
\* that failed once and is enriched later does not end processed with the
\* error still set.
C28_ErrorMeansUnprocessed ==
  \A j \in DOMAIN records :
    records[j].processingError
    => ProcessingState(records[j]) = "unprocessed"
\* C29: a record carries embedding vectors only while its processingState
\* is processed.
C29_EmbeddingOnlyWhenProcessed ==
  \A j \in DOMAIN records :
    records[j].embedding => ProcessingState(records[j]) = "processed"

\* C30: a findOrCreate call flips to failed every unit that is stored
\* pending with expiresAt in the past when the call starts, in every
\* domain, and changes the status of no other existing unit.
C30_CleanupFlipsExactlyExpiredPending ==
  [][\A k \in Keys :
       Called(k)
       => \A i \in DOMAIN searches :
            searches'[i].status = IF StoredExpired(searches[i], now)
                                  THEN "failed"
                                  ELSE searches[i].status]_vars

\* a run of the batch mutation through the cron job or a manual trigger
BatchRuns ==
  \/ CronProcessLinkedIn
  \/ \E b \in BatchArgs : TriggerProfileProcessing(b)
  \/ \E b \in BatchArgs : TriggerJobProcessing(b)

\* C31: a batch run that starts when no record is unprocessed returns the
\* no-op summary (nothing processed, no error) and changes no record and
\* schedules nothing, so running it again leaves the store as it was.
C31_EmptyBatchIsNoOp ==
  [][(BatchRuns /\ UnprocessedSet(records) = {})
     => /\ records' = records
        /\ sched' = sched
        /\ summary'.processed = 0
        /\ summary'.errors = 0
        /\ summary'.message = "none found"]_vars

\* a batch run returned the no-op summary after an earlier run had queued a
\* record whose enrichment has returned, and no record is unprocessed
C31_Witness ==
  /\ summary.message = "none found"
  /\ UnprocessedSet(records) = {}
  /\ \E j \in DOMAIN records :
       records[j].isProcessed = "true" /\ sched[j].outcome = "returned"

\* C32: in the research and profile-search domains a caller that has passed
\* the existence check creates its own pending unit whatever other callers
\* have created since, so two callers with identical parameters that both
\* pass the check leave two pending units for one dedup key.
C32_CheckedCallerAlwaysCreates ==
  [][\A c \in Callers :
       (calls[c].pc = "create" /\ calls'[c].pc = "done")
       => /\ Len(searches') = Len(searches) + 1
          /\ calls'[c].id = Len(searches')
          /\ searches'[calls'[c].id].status = "pending"
          /\ searches'[calls'[c].id].key = calls[c].key]_vars

\* two overlapping callers with the same parameters, called when no unit
\* existed, have each created a unit, and both units are stored pending
C32_Witness ==
  /\ domain \in {"research", "linkedin"}
  /\ \E c1, c2 \in Callers :
       /\ c1 # c2
       /\ c2 \in calls[c1].peers
       /\ calls[c1].pc = "done" /\ calls[c2].pc = "done"
       /\ calls[c1].key = calls[c2].key
       /\ calls[c1].created /\ calls[c2].created
       /\ calls[c1].id = 1 /\ calls[c2].id = 2
       /\ Len(searches) = 2
       /\ searches[1].status = "pending" /\ searches[2].status = "pending"
       /\ searches[1].key = searches[2].key

\* C35: when callers of findOrCreateJobSearch overlap, ask for the same
\* parameters and are each called while no reusable unit exists for them,
\* exactly one new unit is created and every one of them is answered with
\* that unit's id (looked at while the units they were answered with are
\* still pending, that is before any execution has ended).
C35_OverlappingJobCallersShareOneUnit ==
  domain = "jobs"
  => \A c1, c2 \in Callers :
       (/\ c1 # c2
        /\ c2 \in calls[c1].peers
        /\ calls[c1].pc = "done" /\ calls[c2].pc = "done"
        /\ calls[c1].key = calls[c2].key
        /\ ~calls[c1].fresh /\ ~calls[c2].fresh
        /\ searches[calls[c1].id].status = "pending"
        /\ searches[calls[c2].id].status = "pending")
       => /\ calls[c1].id = calls[c2].id
          /\ ~(calls[c1].created /\ calls[c2].created)

AllZero(v) == \A i \in DOMAIN v : v[i] = 0

\* C33: every cosine-similarity function returns 0, and does not throw,
\* when its two vectors differ in length or one of them is all-zero.
C33_CosineZeroNeverThrows ==
  (/\ eval.fn \in CosineFns
   /\ eval.ret # NoRet
   /\ (Len(eval.a) # Len(eval.b) \/ AllZero(eval.a) \/ AllZero(eval.b)))
  => eval.ret = [kind |-> "number", num |-> 0, den2 |-> 1]

\* C34: a country code that is not a key of the localization table (in
\* either case) gets the GB entry.
C34_UnknownCodeGetsGB ==
  (/\ eval.fn = "getSerpAPILocalization"
   /\ eval.ret # NoRet
   /\ ToLowerCase(eval.code) \notin DOMAIN LocalizationMap)
  => eval.ret = [kind |-> "entry", hl |-> "en", gl |-> "uk",
                 google_domain |-> "google.co.uk"]

\* C36: a record that the scheduler has marked processing eventually
\* leaves processing, as processed or back to unprocessed.
C36_ProcessingEventuallyEnds ==
  \A j \in DOMAIN Idents :
    (j \in DOMAIN records /\ ProcessingState(records[j]) = "processing")
    ~> (j \in DOMAIN records /\ ProcessingState(records[j]) # "processing")

\* C37: while batches keep being run, a record that is unprocessed with a
\* raw payload is eventually selected (or enriched by another path), even
\* when the enrichment of another record fails at every attempt.
C37_NoStarvationBehindFailures ==
  \A j \in DOMAIN Idents :
    (/\ j \in DOMAIN records
     /\ records[j].isProcessed = "false" /\ records[j].rawData)
    ~> (/\ j \in DOMAIN records
        /\ (sched[j].inflight > 0 \/ records[j].isProcessed # "false"))

\* C38: the manual processing path never enriches a record that the
\* scheduler has marked processing and whose scheduled enrichment has not
\* ended, so that at most one enrichment of a record is in progress.
C38_ManualPathSkipsInFlight ==
  [][\A j \in DOMAIN Idents :
       (j \in DOMAIN records /\ ManualProcessJob(j))
       => ~(ProcessingState(records[j]) = "processing"
            /\ sched[j].inflight > 0)]_vars

\* the scheduled enrichments of the first n records that have not ended
RECURSIVE InFlightUpTo(_, _)
InFlightUpTo(q, n) ==
  IF n = 0 THEN 0 ELSE q[n].inflight + InFlightUpTo(q, n - 1)

\* C39: with the registered cron job as the only dispatcher, the number of
\* profile enrichments in flight never exceeds the cron batch size of 2.
C39_InFlightWithinCronBatch ==
  domain = "linkedin" => InFlightUpTo(sched, Len(sched)) <= LinkedInBatch

\* C40: storing a raw candidate never modifies a record that is already
\* stored: when the candidate's identity is stored already, the existing
\* record keeps its owning unit, its processingState and its enriched
\* payload.
C40_StoredRecordReusedUnchanged ==
  [][\A i \in DOMAIN tasks :
       StoreRaw(i)
       => \A j \in DOMAIN records :
            /\ records'[j].owner = records[j].owner
            /\ ProcessingState(records'[j]) = ProcessingState(records[j])
            /\ records'[j].aiData = records[j].aiData]_vars
====
